---- MODULE Spec2Model ----
(***************************************************************************)
(* Model of examples/usbcat/device.py: the USBCat FunctionFS function      *)
(* (a pool of PENDING_READ_COUNT asynchronous reads on the OUT endpoint,   *)
(* relayed to a local sink) and the epoll dispatcher loop of main().       *)
(*                                                                         *)
(* The program is single threaded: every handler the dispatcher invokes    *)
(* is one action.  The kernel (AIO context, endpoint files, eventfd) and   *)
(* the USB host are the environment; their steps are actions of their own  *)
(* and interleave with the handlers.                                       *)
(*                                                                         *)
(* Environment contract (libaio / FunctionFS are not part of the file):    *)
(*  - submit on an endpoint that accepts I/O adds one outstanding read of  *)
(*    the block; on an endpoint that does not accept I/O it raises;        *)
(*  - cancel of a block with an outstanding, not yet cancelled read is     *)
(*    accepted and that read later completes with -ESHUTDOWN; otherwise    *)
(*    (the read already completed) cancel raises OSError;                  *)
(*  - a completion writes its bytes at the start of the block's buffer,    *)
(*    queues an event in the AIO context and adds 1 to the eventfd;        *)
(*  - the kernel cancels all pending reads before it signals unbind;        *)
(*  - the host sends data only while the configuration is enabled.         *)
(*                                                                         *)
(* The two directions share no state.  Spec explores the lifecycle and the *)
(* OUT direction with a silent local input; SpecIn explores the IN         *)
(* direction (sender) with a function the host never enables; SpecZlp      *)
(* explores the OUT direction with a host that also sends zero-length      *)
(* packets and never disables the configuration.                           *)
(***************************************************************************)
EXTENDS Integers, Sequences, FiniteSets, TLC

\* ------------------------------------------------------------ constants
PENDING_READ_COUNT == 2
\* BUF_SIZE of the source (1 MiB), scaled down
BufSize == 2
ESHUTDOWN == 108
EIO == 5

\* bounds of the exploration: outstanding reads per block, events waiting
\* in the AIO context, chunks of a local input stream, reads of the local
\* input at end-of-stream
MaxInflight == 2
MaxQueue == 2
MaxChunks == 3
MaxEofReads == 2

Slots == 1..PENDING_READ_COUNT

\* byte strings: b"AA" and b"B" from the host, b"hi" and b"x" from the
\* local input; sys.stdin.read returns b"" at end-of-stream
AA == <<65, 65>>
BB == <<66>>
Hello == <<104, 105>>
Chunks == {Hello, <<120>>}
Eof == << >>
Payloads == {AA}
\* results the kernel reports for a read that was not cancelled:
\* a payload (res = its length) or a transient error (res = -EIO)
KernelResults ==
    {[res |-> Len(p), data |-> p] : p \in Payloads} \cup {[res |-> -EIO, data |-> << >>]}
\* bytes the kernel may write into a buffer while its completion handler runs
NoRace == << >>
RaceChoices == {NoRace, BB}
\* local input streams: up to MaxChunks chunks, then end-of-stream or
\* nothing more yet
Inputs ==
    {c \o e : c \in UNION {[1..k -> Chunks] : k \in 0..MaxChunks},
              e \in {<< >>, <<Eof>>}}

VARIABLES
    phase,      \* position of main(): "running" (dispatcher loop) | "closed"
    exit,       \* how the loop was left: "none" | "interrupt" | "error"
    enabled,    \* USBCat._enabled
    epActive,   \* kernel: the OUT endpoint accepts I/O (configuration enabled by host)
    inflight,   \* kernel: outstanding reads per block of _aio_recv_block_list
    cancelReq,  \* kernel: of those, reads with an accepted cancel request
    cq,         \* AIO context: completion events not yet fetched by getEvents
    efd,        \* eventfd counter
    buf,        \* block.buffer_list[0] of every block
    raced,      \* blocks whose cancel failed and whose completion is not yet delivered
    stdin,      \* what sys.stdin.read will return, in order, whenever stdin is readable
    stdinRead,  \* what sys.stdin.read returned so far, in order
    epWrites,   \* what function.write (IN endpoint) was called with, in order
    epAccepted, \* the bytes the IN endpoint accepted from those calls, in order
    aioClosed,  \* number of times the AIO context was closed
    filesClosed,\* number of times the function's endpoint files were closed
    last,       \* the step taken last and, for a handler, the calls it made, in order
    nEof        \* reads of the local input at end-of-stream so far (bounded)

vars == <<phase, exit, enabled, epActive, inflight, cancelReq, cq, efd, buf,
          raced, stdin, stdinRead, epWrites, epAccepted, aioClosed, filesClosed, last, nEof>>

\* ------------------------------------------------------------ helpers
\* one call made by a handler: t is "cancel", "submit", "recv" (_onReceived
\* is entered), "sink" (_writer is called with data), "disabled" (_enabled
\* is cleared by _disable), "aio_close" or "files_close".
\* ok: the call did not raise (for "recv": the completion did not win a race
\* against a cancel); en: _enabled at the call; out: submissions of the block
\* not yet given to _onReceived at the call
Step(t, slot, res, ok, en, out, data) ==
    [t |-> t, slot |-> slot, res |-> res, ok |-> ok, en |-> en, out |-> out,
     data |-> data]

Count(q, s) == Cardinality({i \in 1..Len(q) : q[i].slot = s})

\* submissions of block s whose completion _onReceived has not been given yet
Outstanding(M, s) == M.inflight[s] + Count(M.cq, s) + Count(M.batch, s)

\* bytearray slice b[:n]
Slice(b, n) == SubSeq(b, 1, n)

\* the kernel copies d to the start of buffer b
Overwrite(b, d) == [i \in 1..Len(b) |-> IF i <= Len(d) THEN d[i] ELSE b[i]]

\* the state the handlers work on, as a record threaded through the calls
Cur ==
    [enabled |-> enabled, epActive |-> epActive, inflight |-> inflight,
     cancelReq |-> cancelReq, cq |-> cq, efd |-> efd, buf |-> buf,
     raced |-> raced, aioClosed |-> aioClosed, filesClosed |-> filesClosed,
     batch |-> << >>, err |-> FALSE, log |-> << >>]

\* ------------------------------------------------------------ kernel / libaio
\* the kernel finishes one outstanding read of block s with result r
KernelFinish(M, s, r) ==
    [M EXCEPT !.inflight[s] = @ - 1,
              !.buf[s] = Overwrite(@, r.data),
              !.cq = Append(@, [slot |-> s, res |-> r.res, data |-> r.data]),
              !.efd = @ + 1]

\* the kernel aborts one cancelled read of block s
KernelAbortRead(M, s) ==
    [M EXCEPT !.inflight[s] = @ - 1,
              !.cancelReq[s] = @ - 1,
              !.cq = Append(@, [slot |-> s, res |-> -ESHUTDOWN, data |-> << >>]),
              !.efd = @ + 1]

RECURSIVE KernelAbortAll(_, _)
KernelAbortAll(M, s) ==
    IF s > PENDING_READ_COUNT THEN M
    ELSE IF M.inflight[s] > 0
         THEN KernelAbortAll(
                  KernelAbortRead([M EXCEPT !.cancelReq[s] =
                                      IF @ = 0 THEN 1 ELSE @], s), s)
         ELSE KernelAbortAll(M, s + 1)

\* AIOContext.submit([block]) for one block; raises when the endpoint does
\* not accept I/O
AIOContext_submit(M, s) ==
    LET st == Step("submit", s, 0, M.epActive, M.enabled, Outstanding(M, s), << >>)
    IN  IF M.err THEN M
        ELSE IF M.epActive
             THEN [M EXCEPT !.inflight[s] = @ + 1, !.log = Append(@, st)]
             ELSE [M EXCEPT !.err = TRUE, !.log = Append(@, st)]

\* AIOContext.cancel(block); raises OSError when no read of the block is left
\* to cancel
AIOContext_cancel(M, s) ==
    LET ok == M.inflight[s] > M.cancelReq[s]
        st == Step("cancel", s, 0, ok, M.enabled, Outstanding(M, s), << >>)
    IN  IF M.err THEN M
        ELSE IF ok
             THEN [M EXCEPT !.cancelReq[s] = @ + 1, !.log = Append(@, st)]
             ELSE [M EXCEPT !.err = TRUE, !.log = Append(@, st)]

\* ------------------------------------------------------------ USBCat
\* try: self._aio_context.cancel(block) / except OSError: trace(...)
TryCancel(M, s) ==
    LET R == AIOContext_cancel(M, s)
    IN  IF M.err THEN M
        ELSE IF R.err THEN [R EXCEPT !.err = FALSE, !.raced = @ \cup {s}]
        ELSE R

RECURSIVE CancelEach(_, _)
CancelEach(M, s) ==
    IF s > PENDING_READ_COUNT THEN M ELSE CancelEach(TryCancel(M, s), s + 1)

\* _disable without the test of _enabled: it cancels on every call
_disable_Unguarded(M) ==
    IF M.err THEN M
    ELSE LET C == CancelEach(M, 1)
         IN  IF C.err THEN C
             ELSE [C EXCEPT !.enabled = FALSE,
                            !.log = Append(@, Step("disabled", 0, 0, TRUE,
                                                   FALSE, 0, << >>))]

_disable(M) ==
    IF M.err THEN M
    ELSE IF M.enabled
         THEN LET C == CancelEach(M, 1)
              IN  IF C.err THEN C
                  ELSE [C EXCEPT !.enabled = FALSE,
                                 !.log = Append(@, Step("disabled", 0, 0, TRUE,
                                                        FALSE, 0, << >>))]
         ELSE M

onDisable(M) == _disable(M)

\* onUnbind disabling the way onDisable does: it cancels the blocks
onUnbind_Cancelling(M) == _disable(M)

onUnbind(M) == [M EXCEPT !.enabled = FALSE]

RECURSIVE SubmitList(_, _)
SubmitList(M, s) ==
    IF s > PENDING_READ_COUNT THEN M ELSE SubmitList(AIOContext_submit(M, s), s + 1)

onEnable(M) ==
    LET D == _disable(M)
        S == SubmitList(D, 1)
    IN  IF S.err THEN S ELSE [S EXCEPT !.enabled = TRUE]

\* _onReceived resubmitting only after a successful read (res >= 0)
_onReceived_SuccessOnly(M, ev, race) ==
    LET R  == [M EXCEPT !.log = Append(@, Step("recv", ev.slot, ev.res,
                                              ev.slot \notin M.raced,
                                              M.enabled, Outstanding(M, ev.slot),
                                              ev.data)),
                        !.raced = @ \ {ev.slot}]
        M1 == IF ev.res >= 0 THEN AIOContext_submit(R, ev.slot) ELSE R
        M2 == IF race # NoRace /\ M1.inflight[ev.slot] > M1.cancelReq[ev.slot]
              THEN KernelFinish(M1, ev.slot, [res |-> Len(race), data |-> race])
              ELSE M1
        out == Slice(M2.buf[ev.slot], ev.res)
    IN  IF M.err THEN M
        ELSE IF M1.err THEN M1
        ELSE IF ev.res < 0 THEN M1
        ELSE [M2 EXCEPT !.log = Append(@, Step("sink", ev.slot, ev.res, TRUE,
                                               M2.enabled, 0, out))]

\* race: what the kernel writes for the resubmitted read between the submit
\* and the read of the buffer by the handler (NoRace: nothing yet)
_onReceived(M, ev, race) ==
    LET R  == [M EXCEPT !.log = Append(@, Step("recv", ev.slot, ev.res,
                                              ev.slot \notin M.raced,
                                              M.enabled, Outstanding(M, ev.slot),
                                              ev.data)),
                        !.raced = @ \ {ev.slot}]
        M1 == IF ev.res # -ESHUTDOWN THEN AIOContext_submit(R, ev.slot) ELSE R
        M2 == IF race # NoRace /\ M1.inflight[ev.slot] > M1.cancelReq[ev.slot]
              THEN KernelFinish(M1, ev.slot, [res |-> Len(race), data |-> race])
              ELSE M1
        out == Slice(M2.buf[ev.slot], ev.res)
    IN  IF M.err THEN M
        ELSE IF M1.err THEN M1
        ELSE IF ev.res < 0 THEN M1
        ELSE [M2 EXCEPT !.log = Append(@, Step("sink", ev.slot, ev.res, TRUE,
                                               M2.enabled, 0, out))]

\* getEvents(): every fetched event is given to its block's callback, in the
\* order the kernel reported them; an exception ends the delivery
RECURSIVE Deliver(_, _, _)
Deliver(M, races, i) ==
    IF M.err \/ M.batch = << >> THEN M
    ELSE Deliver(_onReceived([M EXCEPT !.batch = Tail(@)], Head(M.batch), races[i]),
                 races, i + 1)

onAIOCompletion(M, races) ==
    Deliver([M EXCEPT !.efd = 0, !.batch = M.cq, !.cq = << >>], races, 1)

\* close without the call of AIOContext.close
close_SkipContext(M) ==
    LET D == _disable(M)
    IN  [D EXCEPT !.filesClosed = @ + 1,
                  !.log = Append(@, Step("files_close", 0, 0, TRUE, D.enabled,
                                         0, << >>))]

\* close closing the AIO context before it disables the function
close_ContextFirst(M) ==
    LET A == [M EXCEPT !.aioClosed = @ + 1,
                       !.inflight = [s \in Slots |-> 0],
                       !.cancelReq = [s \in Slots |-> 0],
                       !.cq = << >>,
                       !.raced = {},
                       !.log = Append(@, Step("aio_close", 0, 0, TRUE, M.enabled,
                                              0, << >>))]
        D == _disable(A)
    IN  [D EXCEPT !.filesClosed = @ + 1,
                  !.log = Append(@, Step("files_close", 0, 0, TRUE, D.enabled,
                                         0, << >>))]

\* close(): _disable, AIOContext.close (io_destroy: every outstanding read is
\* cancelled and the unread events are dropped), Function.close
close(M) ==
    LET D == _disable(M)
        A == [D EXCEPT !.aioClosed = @ + 1,
                       !.inflight = [s \in Slots |-> 0],
                       !.cancelReq = [s \in Slots |-> 0],
                       !.cq = << >>,
                       !.raced = {},
                       !.log = Append(@, Step("aio_close", 0, 0, TRUE, D.enabled,
                                              0, << >>))]
    IN  [A EXCEPT !.filesClosed = @ + 1,
                  !.log = Append(@, Step("files_close", 0, 0, TRUE, A.enabled,
                                         0, << >>))]

\* ------------------------------------------------------------ actions
RECURSIVE SumTo(_, _)
SumTo(f, n) == IF n = 0 THEN 0 ELSE f[n] + SumTo(f, n - 1)
Total(f) == SumTo(f, PENDING_READ_COUNT)

\* the handler's resulting state becomes the program's state.  An exception
\* that left the handler leaves the dispatcher loop and the with block, whose
\* __exit__ calls close()
Commit(M, op) ==
    LET F == IF M.err THEN close([M EXCEPT !.err = FALSE]) ELSE M
    IN  /\ enabled' = F.enabled
        /\ inflight' = F.inflight
        /\ cancelReq' = F.cancelReq
        /\ cq' = F.cq
        /\ efd' = F.efd
        /\ buf' = F.buf
        /\ raced' = F.raced
        /\ aioClosed' = F.aioClosed
        /\ filesClosed' = F.filesClosed
        /\ last' = [op |-> op, log |-> F.log, err |-> M.err]
        /\ phase' = IF M.err THEN "closed" ELSE phase
        /\ exit' = IF M.err THEN "error" ELSE exit

InitFunction ==
    /\ phase = "running"
    /\ exit = "none"
    /\ enabled = FALSE
    /\ epActive = FALSE
    /\ inflight = [s \in Slots |-> 0]
    /\ cancelReq = [s \in Slots |-> 0]
    /\ cq = << >>
    /\ efd = 0
    /\ buf = [s \in Slots |-> [i \in 1..BufSize |-> 0]]
    /\ raced = {}
    /\ stdinRead = << >>
    /\ epWrites = << >>
    /\ epAccepted = << >>
    /\ aioClosed = 0
    /\ filesClosed = 0
    /\ last = [op |-> "init", log |-> << >>, err |-> FALSE]
    /\ nEof = 0

\* the local input has nothing to read (yet)
Init == InitFunction /\ stdin = << >>

\* the local input produces one of the bounded streams
InitIn == InitFunction /\ stdin \in Inputs

\* processEvents: the host enabled the configuration
HostEnable ==
    /\ phase = "running"
    /\ \A s \in Slots : inflight[s] < MaxInflight
    /\ Commit(onEnable([Cur EXCEPT !.epActive = TRUE]), "onEnable")
    /\ epActive' = TRUE
    /\ UNCHANGED <<stdin, stdinRead, epWrites, epAccepted, nEof>>

\* processEvents: the host disabled the configuration
HostDisable ==
    /\ phase = "running"
    /\ Commit(onDisable([Cur EXCEPT !.epActive = FALSE]), "onDisable")
    /\ epActive' = FALSE
    /\ UNCHANGED <<stdin, stdinRead, epWrites, epAccepted, nEof>>

\* processEvents: the kernel cancelled all pending reads and unbound the function
HostUnbind ==
    /\ phase = "running"
    /\ Len(cq) + Total(inflight) <= MaxQueue
    /\ Commit(onUnbind(KernelAbortAll([Cur EXCEPT !.epActive = FALSE], 1)),
              "onUnbind")
    /\ epActive' = FALSE
    /\ UNCHANGED <<stdin, stdinRead, epWrites, epAccepted, nEof>>

\* the kernel completes an outstanding read that was not cancelled
KernelComplete ==
    /\ phase = "running"
    /\ epActive
    /\ Len(cq) < MaxQueue
    /\ \E s \in Slots, r \in KernelResults :
          /\ inflight[s] > cancelReq[s]
          /\ LET M == KernelFinish(Cur, s, r)
             IN  /\ inflight' = M.inflight
                 /\ buf' = M.buf
                 /\ cq' = M.cq
                 /\ efd' = M.efd
    /\ last' = [op |-> "kernel", log |-> << >>, err |-> FALSE]
    /\ UNCHANGED <<phase, exit, enabled, epActive, cancelReq, raced, stdin,
                   stdinRead, epWrites, epAccepted, aioClosed, filesClosed, nEof>>

\* the kernel completes an outstanding read with a zero-length packet:
\* res = 0 and the buffer is left as it was
KernelCompleteEmpty ==
    /\ phase = "running"
    /\ epActive
    /\ Len(cq) < MaxQueue
    /\ \E s \in Slots :
          /\ inflight[s] > cancelReq[s]
          /\ LET M == KernelFinish(Cur, s, [res |-> 0, data |-> << >>])
             IN  /\ inflight' = M.inflight
                 /\ buf' = M.buf
                 /\ cq' = M.cq
                 /\ efd' = M.efd
    /\ last' = [op |-> "kernel", log |-> << >>, err |-> FALSE]
    /\ UNCHANGED <<phase, exit, enabled, epActive, cancelReq, raced, stdin,
                   stdinRead, epWrites, epAccepted, aioClosed, filesClosed, nEof>>

\* the kernel completes a cancelled read with -ESHUTDOWN
KernelAbort ==
    /\ phase = "running"
    /\ Len(cq) < MaxQueue
    /\ \E s \in Slots :
          /\ cancelReq[s] > 0
          /\ LET M == KernelAbortRead(Cur, s)
             IN  /\ inflight' = M.inflight
                 /\ cancelReq' = M.cancelReq
                 /\ cq' = M.cq
                 /\ efd' = M.efd
    /\ last' = [op |-> "kernel", log |-> << >>, err |-> FALSE]
    /\ UNCHANGED <<phase, exit, enabled, epActive, buf, raced, stdin,
                   stdinRead, epWrites, epAccepted, aioClosed, filesClosed, nEof>>

\* the eventfd is readable: the dispatcher calls function.onAIOCompletion
OnAIOCompletion ==
    /\ phase = "running"
    /\ efd > 0
    /\ \E races \in [1..Len(cq) -> RaceChoices] :
          LET M == onAIOCompletion(Cur, races)
          IN  /\ \A i \in 1..Len(cq) : cq[i].res < 0 => races[i] = NoRace
              /\ \A s \in Slots : M.inflight[s] <= MaxInflight
              /\ Commit(M, "onAIOCompletion")
    /\ UNCHANGED <<epActive, stdin, stdinRead, epWrites, epAccepted, nEof>>

\* the IN endpoint's write(bytes) -> count: the endpoint takes the first n
\* bytes of buffer and returns n
Endpoint_write(buffer, n) == Slice(buffer, n)

\* stdin is readable (data, or end-of-stream): the dispatcher calls sender.
\* function.write returns the count n of bytes it accepted; sender does not
\* look at it
sender ==
    LET buffer == Head(stdin)
    IN  /\ stdinRead' = Append(stdinRead, buffer)
        /\ epWrites' = Append(epWrites, buffer)
        /\ \E n \in 0..Len(buffer) :
              epAccepted' = epAccepted \o Endpoint_write(buffer, n)
        /\ stdin' = IF buffer = Eof THEN stdin ELSE Tail(stdin)
        /\ nEof' = IF buffer = Eof THEN nEof + 1 ELSE nEof

Sender ==
    /\ phase = "running"
    /\ stdin # << >>
    /\ Head(stdin) = Eof => nEof < MaxEofReads
    /\ sender
    /\ last' = [op |-> "sender", log |-> << >>, err |-> FALSE]
    /\ UNCHANGED <<phase, exit, enabled, epActive, inflight, cancelReq, cq, efd,
                   buf, raced, aioClosed, filesClosed>>

\* a call made by a handler raises an exception of kind t that nothing in
\* the handler catches
Raise(M, t) ==
    [M EXCEPT !.err = TRUE,
              !.log = Append(@, Step(t, 0, 0, FALSE, M.enabled, 0, << >>))]

\* sender is invoked and sys.stdin.read raises IOError: "wouldblock" (EAGAIN,
\* stdin is in non-blocking mode and has nothing to read) or another error.
\* sender has no try statement and the loop catches only KeyboardInterrupt
\* and EOFError
SenderRaises ==
    /\ phase = "running"
    /\ \E t \in {"wouldblock", "ioerror"} :
          /\ t = "wouldblock" => stdin = << >>
          /\ Commit(Raise(Cur, t), "sender")
    /\ UNCHANGED <<epActive, stdin, stdinRead, epWrites, epAccepted, nEof>>

\* function.processEvents is invoked and raises
ProcessEventsRaises ==
    /\ phase = "running"
    /\ Commit(Raise(Cur, "ioerror"), "processEvents")
    /\ UNCHANGED <<epActive, stdin, stdinRead, epWrites, epAccepted, nEof>>

\* KeyboardInterrupt is raised in the loop and caught by the except clause;
\* the with block is left and Function.__exit__ calls close()
Interrupt ==
    /\ phase = "running"
    /\ LET F == close(Cur)
       IN  /\ enabled' = F.enabled
           /\ inflight' = F.inflight
           /\ cancelReq' = F.cancelReq
           /\ cq' = F.cq
           /\ efd' = F.efd
           /\ buf' = F.buf
           /\ raced' = F.raced
           /\ aioClosed' = F.aioClosed
           /\ filesClosed' = F.filesClosed
           /\ last' = [op |-> "close", log |-> F.log, err |-> FALSE]
    /\ phase' = "closed"
    /\ exit' = "interrupt"
    /\ UNCHANGED <<epActive, stdin, stdinRead, epWrites, epAccepted, nEof>>

\* a statement of the with block before the loop (fcntl, register) raises:
\* no handler has run yet; the with block is left and __exit__ calls close()
SetupRaises ==
    /\ phase = "running"
    /\ last.op = "init"
    /\ LET F == close(Cur)
       IN  /\ enabled' = F.enabled
           /\ inflight' = F.inflight
           /\ cancelReq' = F.cancelReq
           /\ cq' = F.cq
           /\ efd' = F.efd
           /\ buf' = F.buf
           /\ raced' = F.raced
           /\ aioClosed' = F.aioClosed
           /\ filesClosed' = F.filesClosed
           /\ last' = [op |-> "setup", log |-> F.log, err |-> TRUE]
    /\ phase' = "closed"
    /\ exit' = "error"
    /\ UNCHANGED <<epActive, stdin, stdinRead, epWrites, epAccepted, nEof>>

Next ==
    \/ SetupRaises
    \/ HostEnable
    \/ HostDisable
    \/ HostUnbind
    \/ KernelComplete
    \/ KernelAbort
    \/ OnAIOCompletion
    \/ Interrupt

NextIn ==
    \/ Sender
    \/ SenderRaises
    \/ ProcessEventsRaises
    \/ Interrupt

\* the OUT direction on a configuration the host enables and never disables,
\* with a host that also sends zero-length packets
NextZlp ==
    \/ HostEnable
    \/ KernelComplete
    \/ KernelCompleteEmpty
    \/ OnAIOCompletion
    \/ Interrupt

Spec == Init /\ [][Next]_vars

SpecIn == InitIn /\ [][NextIn]_vars

SpecZlp == Init /\ [][NextZlp]_vars

\* the dispatcher invokes the handler of every descriptor epoll reports ready
FairSpecIn == SpecIn /\ WF_vars(Sender)

\* ------------------------------------------------------------ properties
\* positions in the last handler's log of the calls of kind t
LogIdx(t) == {i \in DOMAIN last.log : last.log[i].t = t}

\* the calls _onReceived made for the completion entered at position i: the
\* positions after i up to the next completion
Segment(i) ==
    {j \in DOMAIN last.log :
        /\ j > i
        /\ \A k \in LogIdx("recv") : k > i => j < k}

SubmitsFor(i) == {j \in Segment(i) : last.log[j].t = "submit"}

IsRecvOk(st) == st.t = "recv" /\ st.res >= 0
IsSink(st) == st.t = "sink"
IsChunk(b) == b # Eof

\* every completion was processed: none waits in the AIO context and no
\* cancelled read is still to be aborted
Quiescent ==
    /\ phase = "running"
    /\ cq = << >>
    /\ \A s \in Slots : cancelReq[s] = 0

\* C1: once all pending completions have been processed, exactly
\* PENDING_READ_COUNT reads are in flight if the function is enabled and
\* none if it is disabled or unbound.
C1_InflightConverges ==
    Quiescent => Total(inflight) = IF enabled THEN PENDING_READ_COUNT ELSE 0

\* C2: at most PENDING_READ_COUNT reads are in flight, and no block is
\* submitted while an earlier submission of it has not been given to
\* _onReceived.
C2_NoSubmitWhileOutstanding ==
    /\ Total(inflight) <= PENDING_READ_COUNT
    /\ \A i \in LogIdx("submit") : last.log[i].out = 0

\* C3: for every completion given to _onReceived, a -ESHUTDOWN result leads
\* to no submit by the handler, and every other result leads to exactly one
\* submit, of that same block and of no other, as the handler's first call.
C3_ResubmitUnlessShutdown ==
    last.op = "onAIOCompletion" =>
        \A i \in LogIdx("recv") :
            IF last.log[i].res = -ESHUTDOWN
            THEN SubmitsFor(i) = {}
            ELSE /\ SubmitsFor(i) = {i + 1}
                 /\ last.log[i + 1].slot = last.log[i].slot

\* a batch that held a -ESHUTDOWN completion and a transient error completion
C3_Witness ==
    /\ last.op = "onAIOCompletion"
    /\ \E i \in LogIdx("recv") : last.log[i].res = -ESHUTDOWN
    /\ \E i \in LogIdx("recv") : last.log[i].res = -EIO
    /\ ~last.err

FailedCancel == \E i \in LogIdx("cancel") : ~last.log[i].ok

\* C4: when a cancel issued by _disable fails because the read had already
\* completed, no error leaves the handler, every block still gets its cancel
\* request, no error leaves onAIOCompletion when the completion that won the
\* race is processed later, and no completion leads to two submits.
C4_CancelRaceHarmless ==
    /\ (last.op \in {"onDisable", "onEnable"} /\ FailedCancel) =>
           /\ ~last.err
           /\ \A s \in Slots : \E i \in LogIdx("cancel") : last.log[i].slot = s
    /\ (last.op = "onAIOCompletion" /\ \E i \in LogIdx("recv") : ~last.log[i].ok) =>
           ~last.err
    /\ \A i \in LogIdx("recv") : Cardinality(SubmitsFor(i)) <= 1

\* C5: an onDisable delivered right after an onDisable changes neither the
\* enabled flag, nor the reads in flight, nor the pending cancel requests,
\* and issues no cancel request.
C5_DisableIdempotent ==
    [][(last.op = "onDisable" /\ last'.op = "onDisable") =>
           /\ enabled' = enabled
           /\ inflight' = inflight
           /\ cancelReq' = cancelReq
           /\ last'.log = << >>]_vars

\* a second onDisable did nothing while a cancel request of the first is
\* still pending
C5_Witness ==
    /\ last.op = "onDisable"
    /\ last.log = << >>
    /\ ~enabled
    /\ \E s \in Slots : cancelReq[s] > 0

\* the function was enabled when the onEnable signal arrived
StrayEnable == last.op = "onEnable" /\ LogIdx("disabled") # {}

\* C6: an onEnable delivered while the function is enabled leaves no block
\* with two submissions outstanding, and submits every block exactly once,
\* after a cancel request was issued for every block.
C6_StrayEnableNoDoubleSubmit ==
    StrayEnable =>
        /\ \A s \in Slots : Outstanding(Cur, s) <= 1
        /\ \A s \in Slots :
              /\ Cardinality({i \in LogIdx("submit") : last.log[i].slot = s}) = 1
              /\ \E i \in LogIdx("cancel") : last.log[i].slot = s
        /\ \A i \in LogIdx("cancel"), j \in LogIdx("submit") : i < j

\* C7: a submit is requested only by onEnable for its pool, or by a
\* completion processed while the function is enabled.
C7_SubmitOnlyWhileEnabled ==
    \A i \in LogIdx("submit") :
        \/ last.op = "onEnable"
        \/ last.op = "onAIOCompletion" /\ last.log[i].en

\* C8: the sink is called once for every successful completion, in the order
\* the kernel reported them, with the bytes the kernel wrote for it, and the
\* completing block is submitted again.
C8_SinkGetsPayloadsInOrder ==
    last.op = "onAIOCompletion" =>
        LET got  == SelectSeq(last.log, IsRecvOk)
            sunk == SelectSeq(last.log, IsSink)
        IN  /\ Len(sunk) = Len(got)
            /\ \A k \in 1..Len(got) :
                  /\ k <= Len(sunk)
                  /\ sunk[k].slot = got[k].slot
                  /\ sunk[k].data = got[k].data
            /\ \A i \in LogIdx("recv") :
                  last.log[i].res >= 0 =>
                      \E j \in SubmitsFor(i) : last.log[j].ok

\* the local input is at end-of-stream
AtEof == stdin # << >> /\ Head(stdin) = Eof

\* C9: when the local input produced the one chunk b"hi" and then
\* end-of-stream, function.write was called exactly once, with that chunk,
\* and an interrupt ends the dispatcher loop.
C9_OneWriteThenEof ==
    /\ (AtEof /\ SelectSeq(stdinRead, IsChunk) = <<Hello>>) => epWrites = <<Hello>>
    /\ exit = "interrupt" => phase = "closed"

\* C10: once the local input is at end-of-stream the dispatcher loop
\* eventually exits, with no interrupt needed.
C10_TerminatesOnEof == AtEof ~> (phase = "closed")

\* C11: however the with block is left (interrupt, an exception of a handler
\* or of the setup), the AIO context and the function's files have each been
\* closed exactly once; while the loop runs neither has been closed.
C11_ClosedExactlyOnce ==
    /\ phase = "closed" => (aioClosed = 1 /\ filesClosed = 1)
    /\ phase = "running" => (aioClosed = 0 /\ filesClosed = 0)
    /\ exit # "none" => phase = "closed"

\* the block was left by an exception that a submit raised in a handler
C11_Witness ==
    /\ phase = "closed"
    /\ exit = "error"
    /\ last.op = "onAIOCompletion"
    /\ \E i \in LogIdx("submit") : ~last.log[i].ok
    /\ aioClosed = 1
    /\ filesClosed = 1

IsTransientError(st) == st.t = "recv" /\ st.res < 0 /\ st.res # -ESHUTDOWN

\* C12: a completion with a negative result other than -ESHUTDOWN is never
\* fatal: whatever the state it is processed in, its block is submitted
\* again and no exception leaves onAIOCompletion.
C12_TransientErrorNotFatal ==
    last.op = "onAIOCompletion" =>
        \A i \in LogIdx("recv") :
            IsTransientError(last.log[i]) =>
                /\ \E j \in SubmitsFor(i) : last.log[j].ok
                /\ ~last.err

\* C13: onUnbind makes no call (no cancel request, no submit) and leaves the
\* function marked disabled; and whatever runs next while the function is
\* marked disabled (onDisable or close among them) issues no cancel request.
C13_UnbindCancelsNothing ==
    /\ [](last.op = "onUnbind" => (last.log = << >> /\ ~enabled))
    /\ [][~enabled => \A i \in DOMAIN last'.log : last'.log[i].t # "cancel"]_vars

\* onUnbind was delivered for reads the kernel had aborted: their -ESHUTDOWN
\* completions wait in the AIO context
C13_Witness ==
    /\ last.op = "onUnbind"
    /\ ~enabled
    /\ Len(cq) = PENDING_READ_COUNT
    /\ \A i \in DOMAIN cq : cq[i].res = -ESHUTDOWN

\* C14: close, from whatever state it is called in, closes the AIO context
\* once and then the files once; when the function is enabled it first issues
\* a cancel request for every block and then marks the function disabled,
\* both before the AIO context is closed; when the function is not enabled
\* it issues no cancel request.
C14_CloseOrdersSteps ==
    [][(phase = "running" /\ phase' = "closed") =>
          LET L == last'.log
              A == {i \in DOMAIN L : L[i].t = "aio_close"}
              F == {i \in DOMAIN L : L[i].t = "files_close"}
              C == {i \in DOMAIN L : L[i].t = "cancel"}
              D == {i \in DOMAIN L : L[i].t = "disabled"}
          IN  /\ Cardinality(A) = 1
              /\ Cardinality(F) = 1
              /\ \A a \in A, f \in F : a < f
              /\ ~enabled'
              /\ IF enabled
                 THEN /\ \A s \in Slots : \E c \in C : L[c].slot = s
                      /\ Cardinality(D) = 1
                      /\ \A c \in C, d \in D : c < d
                      /\ \A d \in D, a \in A : d < a
                 ELSE C = {} /\ D = {}]_vars

\* close ran while the function was enabled and one of its cancel requests
\* failed (that read had already completed)
C14_Witness ==
    /\ phase = "closed"
    /\ last.op = "close"
    /\ LogIdx("disabled") # {}
    /\ \E i \in LogIdx("cancel") : ~last.log[i].ok
    /\ \E i \in LogIdx("cancel") : last.log[i].ok

IsRecv(st) == st.t = "recv"

\* the completion events of q as _onReceived is given them
Events(q) == [i \in DOMAIN q |-> [slot |-> q[i].slot, res |-> q[i].res]]

\* C15: onAIOCompletion reads the eventfd, which leaves the counter counting
\* only the completions signalled after the read, and gives every completion
\* that waited in the AIO context to _onReceived exactly once, in order.
C15_DrainDeliversAll ==
    [][last'.op = "onAIOCompletion" =>
          /\ Events(SelectSeq(last'.log, IsRecv)) = Events(cq)
          /\ ~last'.err => efd' = Len(cq')]_vars

\* the calls of the sink _onReceived made for the completion entered at i
SinksFor(i) == {j \in Segment(i) : last.log[j].t = "sink"}

\* C16: a completion with a negative result or with 0 bytes leads to no call
\* of the sink; a completion with n > 0 bytes leads to exactly one call, with
\* n bytes of that block's buffer.
C16_SinkOnlyForData ==
    \A i \in LogIdx("recv") :
        IF last.log[i].res > 0
        THEN /\ Cardinality(SinksFor(i)) = 1
             /\ \A j \in SinksFor(i) :
                   /\ last.log[j].slot = last.log[i].slot
                   /\ Len(last.log[j].data) = last.log[i].res
        ELSE SinksFor(i) = {}

\* C17: an exception raised by processEvents, or by sender for anything but
\* would-block, ends the loop and close runs; a would-block raised on the
\* local input does not end the loop.
C17_OnlyRealErrorsTerminate ==
    /\ (last.op \in {"processEvents", "sender"} /\ LogIdx("ioerror") # {}) =>
           /\ phase = "closed"
           /\ LogIdx("aio_close") # {}
           /\ LogIdx("files_close") # {}
    /\ (last.op = "sender" /\ LogIdx("wouldblock") # {}) => phase = "running"

\* C18: the buffer of a block is read for the sink only while no read of the
\* block is in flight: the block is not submitted again before the call of
\* the sink, and the sink gets the bytes the kernel wrote for the completion.
C18_BufferReadBeforeResubmit ==
    \A i \in LogIdx("recv") :
        \A j \in SinksFor(i) :
            /\ \A k \in SubmitsFor(i) : j < k
            /\ last.log[j].data = last.log[i].data

\* C19: when close is called, in whatever state, no read is in flight and no
\* completion waits unprocessed in the AIO context at the moment the AIO
\* context is closed (the cancel requests of close complete nothing).
C19_CloseAfterAllObserved ==
    [][(phase = "running" /\ last'.op = "close") =>
          /\ Total(inflight) = 0
          /\ cq = << >>]_vars

\* the bytes of the byte strings of q, in order
RECURSIVE Concat(_)
Concat(q) == IF q = << >> THEN << >> ELSE Head(q) \o Concat(Tail(q))

\* C20: the bytes the IN endpoint accepted are, in order, the bytes sender
\* read from the local input, also when a write accepts fewer bytes than it
\* was given.
C20_NoInputByteLost == epAccepted = Concat(stdinRead)

====
